---- MODULE Spec2Model ----
(***************************************************************************)
(* A model of cognoml: data acquisition (cognoml/data.py, CognomlData),    *)
(* data filtering (CognomlData.filter_data_by_mutation) and the classifier *)
(* orchestrator and its report (cognoml/analysis.py).                      *)
(*                                                                         *)
(* The specifications share the module's variables:                        *)
(*   Spec           one CognomlData object working on a local filesystem   *)
(*                  against the remote archive;                            *)
(*   SpecCrash      the same, with download_files calls that are cut short *)
(*                  while urlretrieve is writing a data file;              *)
(*   SpecFilter     filter_data_by_mutation applied to bounded tables;     *)
(*   SpecClassifier CognomlClassifier instances and classify() working on  *)
(*                  the module-level grid_search estimator.                *)
(***************************************************************************)
EXTENDS Integers, Sequences, FiniteSets, TLC

VARIABLES
    version_to_url,   \* self._version_to_url: the archive's version listing
    arg_version,      \* the version argument the object was constructed with
    self,             \* the CognomlData object's attributes
    manifest,         \* names of article['files'] at the object's version URL
    dirs,             \* directories that exist on the local filesystem
    files,            \* files that exist on the local filesystem: path -> content
    parses,           \* per raw file name, how often read_table has parsed it
    lastCall,         \* the most recent call on the object and what it did
    expr_df,          \* filter_data_by_mutation's expression table argument
    mut_df,           \* the mutation-label series (self._mut_df)
    filtered,         \* outcome of the most recent filter_data_by_mutation call
    estimators,       \* the estimator objects' state; grid_search is the module's
    inst,             \* the CognomlClassifier instances
    classified        \* outcome of the most recent classify() call

dataVars == <<version_to_url, arg_version, self, manifest, dirs, files, parses,
              lastCall>>
filterVars == <<expr_df, mut_df, filtered>>
classifierVars == <<estimators, inst, classified>>
vars == <<dataVars, filterVars, classifierVars>>

----------------------------------------------------------------------------
(* Bounds of the model *)

\* versions the archive may list are 1..MaxVersion
MaxVersion == 2
\* tables handed to filter_data_by_mutation have at most MaxRows rows
MaxRows == 3

----------------------------------------------------------------------------
(* Constructor arguments (data.py:12-16) *)

\* version=None
NoVersion == 0
article_id == "3487685"
directory == <<"download">>
covariates_file == "covariates.tsv"
expressions_file == "expression-matrix.tsv.bz2"
\* a file of the article that the object does not ask for
OtherFile == "mutation-matrix.tsv.bz2"
files_to_download == <<covariates_file, expressions_file>>

Range(s) == {s[i] : i \in 1..Len(s)}
SetMax(S) == CHOOSE m \in S : \A x \in S : x <= m
SetMin(S) == CHOOSE m \in S : \A x \in S : m <= x

\* os.path.join(path, component)
Join(path, component) == Append(path, component)
\* 'v{}'.format(version)
VersionDir(version) == <<"v", version>>

----------------------------------------------------------------------------
(* The remote archive *)

\* figshare_url.format(article_id)
ArticleUrl == <<"https://api.figshare.com/v2/articles", article_id, "versions">>
\* the listing's d['url'] of version v
RemoteVersionUrl(v) == Append(ArticleUrl, v)
\* the version listing GET ArticleUrl answers with, for the listed versions
Listing(listed) == [v \in listed |-> RemoteVersionUrl(v)]
Listings == {Listing(listed) : listed \in (SUBSET (1..MaxVersion)) \ {{}}}

\* file_info['download_url'] of a manifest entry
DownloadUrl(url, name) == <<url, name>>
\* the raw table behind a download url: rows of (sample_id, value)
RemoteContent(download_url) ==
    IF download_url[2] = covariates_file
    THEN << <<"s1", download_url[1][4]>>, <<"s3", 7>> >>
    ELSE << <<"s2", download_url[1][4]>>, <<"s1", 5>>, <<"s3", 6>> >>
\* a raw table an outside party may put in a data file's place
ReplacedContent == << <<"s3", 9>> >>

\* the file lists an article version may carry
Manifests ==
    { <<>>,
      <<covariates_file>>,
      <<OtherFile, expressions_file>>,
      <<covariates_file, expressions_file>>,
      <<expressions_file, OtherFile, covariates_file, expressions_file>> }

\* the label series the mutation feed may deliver: index -> mutation_status
MutationFeeds ==
    { [index |-> <<"s1", "s2">>, values |-> <<1, 0>>],
      [index |-> <<"s3", "s4">>, values |-> <<0, 1>>] }

----------------------------------------------------------------------------
(* Tables *)

\* what a file holds where its bytes end in the middle of a compressed block
\* or of a field: a row no parser can read
Garbage == <<>>

\* pd.read_table raises (EmptyDataError, ParserError, EOFError) on an empty
\* file and on one that ends in bytes it cannot read
Parseable(raw) == raw # <<>> /\ \A i \in 1..Len(raw) : raw[i] # Garbage

\* pd.read_table(data_path, index_col=0): the first column becomes the index;
\* a row that ends after its first field gets NaN (the empty cell <<>>)
ReadTable(raw) ==
    [index |-> [i \in 1..Len(raw) |-> raw[i][1]],
     values |-> [i \in 1..Len(raw) |->
                    IF Len(raw[i]) > 1 THEN <<raw[i][2]>> ELSE <<>>]]

\* positions of label in a table's index
Locate(df, label) == {i \in 1..Len(df.index) : df.index[i] = label}

\* expr_df.loc[labels, :] when every label is in the index: the rows in the
\* order of labels
LocRows(df, labels) ==
    [index |-> labels,
     values |-> [i \in 1..Len(labels) |->
                    df.values[CHOOSE p \in Locate(df, labels[i]) : TRUE]]]

\* the same selection as a reindex: a label that is not in the index yields a
\* row of NaN (the empty cell <<>>)
ReindexRows(df, labels) ==
    [index |-> labels,
     values |-> [i \in 1..Len(labels) |->
                    IF Locate(df, labels[i]) = {} THEN <<>>
                    ELSE df.values[CHOOSE p \in Locate(df, labels[i]) : TRUE]]]

\* CognomlData.filter_data_by_mutation: expr_df.loc[mut_df.index, :].  With a
\* label that is not in expr_df's index pandas raises KeyError (1.0 and later,
\* and earlier when no label at all is found) or returns the reindexed table.
FilterOutcomes(E, L) ==
    LET labels == L.index
        missing == {i \in 1..Len(labels) : Locate(E, labels[i]) = {}}
    IN  IF missing = {}
        THEN {[outcome |-> "ok", df |-> LocRows(E, labels)]}
        ELSE {[outcome |-> "KeyError", df |-> [index |-> <<>>, values |-> <<>>]]}
             \cup (IF Cardinality(missing) < Len(labels)
                   THEN {[outcome |-> "ok", df |-> ReindexRows(E, labels)]}
                   ELSE {})

NoTable == [index |-> <<>>, values |-> <<>>]

----------------------------------------------------------------------------
(* The local filesystem *)

\* os.path.exists(path)
PathExists(fs, path) == path \in fs.dirs \/ path \in DOMAIN fs.files

\* cognoml.utils.create_dir(path): make the directory unless it exists
create_dir(fs, path) ==
    IF PathExists(fs, path) THEN fs
    ELSE [fs EXCEPT !.dirs = @ \cup {path}, !.mkdirs = Append(@, path)]

\* open(path, 'w') / urlretrieve(url, path) / to_pickle(path)
WriteFile(fs, path, content) ==
    [fs EXCEPT !.files = [p \in (DOMAIN @) \cup {path} |->
                             IF p = path THEN content ELSE @[p]]]

----------------------------------------------------------------------------
(* CognomlData.__init__ (data.py:28-40) *)

\* get_version taking the least listed version for None
get_version_least(listing, init_version) ==
    IF init_version = NoVersion THEN SetMin(DOMAIN listing) ELSE init_version

\* get_version(init_version)
get_version(listing, init_version) ==
    IF init_version = NoVersion THEN SetMax(DOMAIN listing) ELSE init_version

NewCognomlData(listing, init_version) ==
    LET version == get_version(listing, init_version)
        download_path == Join(directory, VersionDir(version))
    IN  [_version |-> version,
         _download_path |-> download_path,
         _files_to_download |-> files_to_download]

----------------------------------------------------------------------------
(* CognomlData.download_files (data.py:91-134) *)

\* the url the manifest is fetched from (data.py:102-107); <<>> when the
\* version is no key of the listing (KeyError)
ManifestUrl(obj, listing) ==
    LET version == IF obj._version = NoVersion THEN SetMax(DOMAIN listing)
                   ELSE obj._version
    IN  IF version \in DOMAIN listing THEN listing[version] ELSE <<>>

\* the skip-if-exists test left out
AlreadyThereNever(fs, path) == FALSE

\* data.py:125: the file's path is already there
AlreadyThere(fs, path) == PathExists(fs, path)

\* data.py:123: the manifest entry is one of the files asked for
Wanted(obj, name) == name \in Range(obj._files_to_download)

\* one turn of the loop over article['files'] (data.py:121-132)
DownloadOne(obj, fs, url, name) ==
    IF Wanted(obj, name)
    THEN LET path == Join(obj._download_path, name)
         IN  IF AlreadyThere(fs, path) THEN fs
             ELSE LET got == WriteFile(fs, path, RemoteContent(DownloadUrl(url, name)))
                  IN  [got EXCEPT !.downloads = Append(@, path)]
    ELSE fs

RECURSIVE DownloadAll(_, _, _, _)
DownloadAll(obj, fs, url, names) ==
    IF names = <<>> THEN fs
    ELSE DownloadAll(obj, DownloadOne(obj, fs, url, Head(names)), url, Tail(names))

\* where info.json is written (data.py:116)
InfoPath(obj) == Join(obj._download_path, "info.json")

\* data.py:109-118: the directories are made and info.json is written
before_loop(obj, fs, url, names) ==
    LET made == create_dir(create_dir(fs, directory), obj._download_path)
    IN  WriteFile(made, InfoPath(obj), [url |-> url, files |-> names])

\* the filesystem after download_files has run to its return
download_files(obj, fs, url, names) ==
    DownloadAll(obj, before_loop(obj, fs, url, names), url, names)

\* what a transfer that is cut short may have put on disk of a file: its
\* first rows, fewer than all, followed by nothing, by the next row cut after
\* its first field, or by bytes no parser can read
PartialFiles(content) ==
    {SubSeq(content, 1, k) \o tail :
        k \in 0..(Len(content) - 1),
        tail \in {<<>>, <<Garbage>>}}
    \cup {Append(SubSeq(content, 1, k), <<content[k + 1][1]>>) :
            k \in 0..(Len(content) - 1)}

\* a transfer that leaves nothing at the path unless it completes
urlretrieve_atomic(fs, path, partial) == fs

\* data.py:128-130: urlretrieve(url, path) writes to the path itself, so a
\* transfer that is cut short leaves what it had written there
urlretrieve_cut_short(fs, path, partial) == WriteFile(fs, path, partial)

----------------------------------------------------------------------------
(* CognomlData.get_df_from_table (data.py:136-168) *)

\* pickle_dict[tsv_file]
PickleName(tsv_file) == tsv_file \o "_pickle"
PicklePath(obj, tsv_file) == Join(obj._download_path, PickleName(tsv_file))
DataPath(obj, tsv_file) == Join(obj._download_path, tsv_file)

\* the cache never consulted
CachedNever(fs, obj, tsv_file) == FALSE

\* data.py:159: the cached parsed table is there
Cached(fs, obj, tsv_file) == PathExists(fs, PicklePath(obj, tsv_file))

\* the missing raw file passed over in silence
RawMissingSilent == "ok"

\* data.py:163-164: what the call ends in when the raw file is not there
RawMissingError == "IOError"

\* get_df_from_table creating the cache file before it looks for the raw file
get_df_from_table_eager(obj, fs, tsv_file) ==
    LET data_path == Join(obj._download_path, tsv_file)
        pickle_path == Join(obj._download_path, tsv_file \o "_pickle")
    IN  IF tsv_file \notin Range(obj._files_to_download)
        THEN [outcome |-> "KeyError", df |-> NoTable, fs |-> fs,
              checks |-> <<>>, reads |-> <<>>]
        ELSE IF PathExists(fs, pickle_path)
        THEN [outcome |-> "ok", df |-> fs.files[pickle_path], fs |-> fs,
              checks |-> <<pickle_path>>, reads |-> <<>>]
        ELSE IF ~PathExists(fs, data_path)
        THEN [outcome |-> "IOError", df |-> NoTable,
              fs |-> IF obj._download_path \in fs.dirs
                     THEN WriteFile(fs, pickle_path, NoTable) ELSE fs,
              checks |-> <<pickle_path, data_path>>, reads |-> <<>>]
        ELSE [outcome |-> "ok", df |-> ReadTable(fs.files[data_path]),
              fs |-> WriteFile(fs, pickle_path, ReadTable(fs.files[data_path])),
              checks |-> <<pickle_path, data_path>>, reads |-> <<data_path>>]

\* the call's outcome, its result, the filesystem after it, the paths it
\* tested with os.path.exists and the raw files it parsed
get_df_from_table(obj, fs, tsv_file) ==
    IF tsv_file \notin Range(obj._files_to_download)
    THEN [outcome |-> "KeyError", df |-> NoTable, fs |-> fs,
          checks |-> <<>>, reads |-> <<>>]
    ELSE LET data_path == DataPath(obj, tsv_file)
             pickle_path == PicklePath(obj, tsv_file)
         IN  IF Cached(fs, obj, tsv_file)
             THEN [outcome |-> "ok", df |-> fs.files[pickle_path], fs |-> fs,
                   checks |-> <<pickle_path>>, reads |-> <<>>]
             ELSE IF ~PathExists(fs, data_path)
             THEN [outcome |-> RawMissingError, df |-> NoTable, fs |-> fs,
                   checks |-> <<pickle_path, data_path>>, reads |-> <<>>]
             ELSE IF ~Parseable(fs.files[data_path])
             THEN [outcome |-> "ParseError", df |-> NoTable, fs |-> fs,
                   checks |-> <<pickle_path, data_path>>,
                   reads |-> <<data_path>>]
             ELSE LET df == ReadTable(fs.files[data_path])
                  IN  [outcome |-> "ok", df |-> df,
                       fs |-> WriteFile(fs, pickle_path, df),
                       checks |-> <<pickle_path, data_path>>,
                       reads |-> <<data_path>>]

----------------------------------------------------------------------------
(* The state machine of one CognomlData object *)

NoCall ==
    [op |-> "none", arg |-> "", outcome |-> "none", url |-> <<>>,
     mkdirs |-> <<>>, downloads |-> <<>>, checks |-> <<>>, reads |-> <<>>,
     df |-> NoTable]

\* the filesystem as the operations take it: no mkdir or download logged yet
Fs == [dirs |-> dirs, files |-> files, mkdirs |-> <<>>, downloads |-> <<>>]

\* names get_df_from_table is called with
TableNames == {covariates_file, expressions_file, OtherFile}

CountParses(reads) ==
    [f \in DOMAIN parses |->
        IF \E i \in 1..Len(reads) : reads[i] = DataPath(self, f)
        THEN (IF parses[f] < 2 THEN parses[f] + 1 ELSE parses[f]) ELSE parses[f]]

ClassifierIdle ==
    /\ estimators = <<>>
    /\ inst = <<>>
    /\ classified = <<>>

FilterIdle ==
    /\ expr_df = NoTable
    /\ filtered = [outcome |-> "none", df |-> NoTable]

\* after construction: the listing and the label feed are fetched, nothing is
\* on disk
Init ==
    /\ version_to_url \in Listings
    /\ arg_version \in {NoVersion} \cup (1..MaxVersion)
    /\ self = NewCognomlData(version_to_url, arg_version)
    /\ manifest \in Manifests
    /\ mut_df \in MutationFeeds
    /\ dirs = {}
    /\ files = <<>>
    /\ parses = [f \in Range(files_to_download) |-> 0]
    /\ lastCall = NoCall
    /\ FilterIdle
    /\ ClassifierIdle

\* download_files() with the version missing from the listing: KeyError at
\* data.py:106, before any request or write
DownloadFilesKeyError ==
    /\ ManifestUrl(self, version_to_url) = <<>>
    /\ lastCall' = [NoCall EXCEPT !.op = "download_files", !.outcome = "KeyError"]
    /\ UNCHANGED <<version_to_url, arg_version, self, manifest, dirs, files, parses,
                   filterVars, classifierVars>>

\* download_files() when the manifest cannot be fetched (data.py:107)
DownloadFilesUnreachable ==
    /\ ManifestUrl(self, version_to_url) # <<>>
    /\ lastCall' = [NoCall EXCEPT !.op = "download_files",
                                  !.outcome = "ConnectionError",
                                  !.url = ManifestUrl(self, version_to_url)]
    /\ UNCHANGED <<version_to_url, arg_version, self, manifest, dirs, files, parses,
                   filterVars, classifierVars>>

\* download_files() running to its return
DownloadFiles ==
    /\ ManifestUrl(self, version_to_url) # <<>>
    /\ LET url == ManifestUrl(self, version_to_url)
           fs == download_files(self, Fs, url, manifest)
       IN  /\ dirs' = fs.dirs
           /\ files' = fs.files
           /\ lastCall' = [NoCall EXCEPT !.op = "download_files", !.outcome = "ok",
                                         !.url = url, !.mkdirs = fs.mkdirs,
                                         !.downloads = fs.downloads]
    /\ UNCHANGED <<version_to_url, arg_version, self, manifest, parses, filterVars, classifierVars>>

\* get_df_from_table(tsv_file)
GetDfFromTable(tsv_file) ==
    /\ LET r == get_df_from_table(self, Fs, tsv_file)
       IN  /\ dirs' = r.fs.dirs
           /\ files' = r.fs.files
           /\ parses' = CountParses(r.reads)
           /\ lastCall' = [NoCall EXCEPT !.op = "get_df_from_table", !.arg = tsv_file,
                                         !.outcome = r.outcome, !.checks = r.checks,
                                         !.reads = r.reads, !.df = r.df]
    /\ UNCHANGED <<version_to_url, arg_version, self, manifest, filterVars, classifierVars>>

\* run() (data.py:196-213): download_files, get_df_from_table on the
\* expressions file, filter_data_by_mutation; the first failure ends it
Run(reachable) ==
    LET url == ManifestUrl(self, version_to_url)
        call == [NoCall EXCEPT !.op = "run", !.url = url]
    IN  IF url = <<>> \/ ~reachable
        THEN /\ lastCall' = [call EXCEPT !.outcome =
                                IF url = <<>> THEN "KeyError" ELSE "ConnectionError"]
             /\ UNCHANGED <<version_to_url, arg_version, self, manifest, dirs, files,
                            parses, filterVars, classifierVars>>
        ELSE LET fs == download_files(self, Fs, url, manifest)
                 r == get_df_from_table(self, fs, expressions_file)
                 done == [call EXCEPT !.mkdirs = fs.mkdirs, !.downloads = fs.downloads,
                                      !.checks = r.checks, !.reads = r.reads]
             IN  /\ dirs' = r.fs.dirs
                 /\ files' = r.fs.files
                 /\ parses' = CountParses(r.reads)
                 /\ IF r.outcome # "ok"
                    THEN lastCall' = [done EXCEPT !.outcome = r.outcome]
                    ELSE \E f \in FilterOutcomes(r.df, mut_df) :
                            lastCall' = [done EXCEPT !.outcome = f.outcome, !.df = f.df]
                 /\ UNCHANGED <<version_to_url, arg_version, self, manifest, filterVars, classifierVars>>

\* an outside party removes a downloaded data file
RemoveRaw(name) ==
    /\ DataPath(self, name) \in DOMAIN files
    /\ files' = [p \in (DOMAIN files) \ {DataPath(self, name)} |-> files[p]]
    /\ lastCall' = [NoCall EXCEPT !.op = "outside", !.arg = name]
    /\ UNCHANGED <<version_to_url, arg_version, self, manifest, dirs, parses, filterVars, classifierVars>>

\* an outside party replaces a downloaded data file by another table
ReplaceRaw(name) ==
    /\ DataPath(self, name) \in DOMAIN files
    /\ files' = [files EXCEPT ![DataPath(self, name)] = ReplacedContent]
    /\ lastCall' = [NoCall EXCEPT !.op = "outside", !.arg = name]
    /\ UNCHANGED <<version_to_url, arg_version, self, manifest, dirs, parses, filterVars, classifierVars>>

Next ==
    \/ DownloadFilesKeyError
    \/ DownloadFilesUnreachable
    \/ DownloadFiles
    \/ \E tsv_file \in TableNames : GetDfFromTable(tsv_file)
    \/ \E reachable \in BOOLEAN : Run(reachable)
    \/ \E name \in Range(files_to_download) : RemoveRaw(name)
    \/ \E name \in Range(files_to_download) : ReplaceRaw(name)

Spec == Init /\ [][Next]_vars

----------------------------------------------------------------------------
(* download_files cut short: SpecCrash *)

\* download_files() ended (the process killed, or urlretrieve raising on a
\* dropped connection) while urlretrieve was writing the k-th manifest entry:
\* the entries before it are dealt with, the file in transfer is left as far
\* as it was written
DownloadFilesInterrupted(k) ==
    /\ ManifestUrl(self, version_to_url) # <<>>
    /\ k \in 1..Len(manifest)
    /\ LET url == ManifestUrl(self, version_to_url)
           before == DownloadAll(self, before_loop(self, Fs, url, manifest), url,
                                 SubSeq(manifest, 1, k - 1))
           name == manifest[k]
           path == Join(self._download_path, name)
       IN  /\ Wanted(self, name)
           /\ ~AlreadyThere(before, path)
           /\ \E partial \in PartialFiles(RemoteContent(DownloadUrl(url, name))) :
                 LET fs == urlretrieve_cut_short(before, path, partial)
                 IN  /\ dirs' = fs.dirs
                     /\ files' = fs.files
                     /\ lastCall' = [NoCall EXCEPT !.op = "download_files",
                                                   !.outcome = "Interrupted",
                                                   !.arg = name,
                                                   !.url = url,
                                                   !.mkdirs = fs.mkdirs,
                                                   !.downloads = fs.downloads]
    /\ UNCHANGED <<version_to_url, arg_version, self, manifest, parses, filterVars,
                   classifierVars>>

\* an outside party puts the complete file in the place of a data file that a
\* transfer cut short has left
RepairRaw(name) ==
    /\ ManifestUrl(self, version_to_url) # <<>>
    /\ DataPath(self, name) \in DOMAIN files
    /\ LET complete == RemoteContent(DownloadUrl(ManifestUrl(self, version_to_url),
                                                  name))
       IN  /\ files[DataPath(self, name)] \in PartialFiles(complete)
           /\ files' = [files EXCEPT ![DataPath(self, name)] = complete]
    /\ lastCall' = [NoCall EXCEPT !.op = "outside", !.arg = name]
    /\ UNCHANGED <<version_to_url, arg_version, self, manifest, dirs, parses,
                   filterVars, classifierVars>>

\* the object constructed with version=None against an archive that lists
\* every version
InitCrash ==
    /\ Init
    /\ arg_version = NoVersion
    /\ version_to_url = Listing(1..MaxVersion)

NextCrash ==
    \/ DownloadFilesUnreachable
    \/ DownloadFiles
    \/ \E k \in 1..Len(manifest) : DownloadFilesInterrupted(k)
    \/ \E tsv_file \in TableNames : GetDfFromTable(tsv_file)
    \/ \E reachable \in BOOLEAN : Run(reachable)
    \/ \E name \in Range(files_to_download) : RepairRaw(name)

SpecCrash == InitCrash /\ [][NextCrash]_vars

----------------------------------------------------------------------------
(* Claims about data acquisition, checked under Spec *)

NoDuplicates(s) == \A i, j \in 1..Len(s) : s[i] = s[j] => i = j
DataPaths == {DataPath(self, f) : f \in Range(files_to_download)}
\* the call that ended in this step ran download_files
DownloadedIn(call) == call.op \in {"download_files", "run"}

Absent(f) == f \notin Range(manifest) /\ DataPath(self, f) \notin DOMAIN files

Fetched(call) == call.url # <<>> /\ call.outcome # "ConnectionError"

GetDfStep(call, f) == call.op = "get_df_from_table" /\ call.arg = f

\* C7: get_df_from_table with a name outside files_to_download ends in
\* KeyError having tested no path; with a name of files_to_download whose
\* cached table and raw file are both absent it ends in IOError; in both cases
\* the files and directories on disk are what they were.
C7_GetDfFailsClean ==
    [][\A f \in TableNames : GetDfStep(lastCall', f) =>
        /\ f \notin Range(files_to_download)
              => /\ lastCall'.outcome = "KeyError" /\ lastCall'.checks = <<>>
                 /\ files' = files /\ dirs' = dirs
        /\ (/\ f \in Range(files_to_download)
            /\ ~PathExists(Fs, PicklePath(self, f))
            /\ ~PathExists(Fs, DataPath(self, f)))
              => /\ lastCall'.outcome = "IOError"
                 /\ files' = files /\ dirs' = dirs
        /\ lastCall'.outcome \in {"KeyError", "IOError"}
              => files' = files /\ dirs' = dirs
      ]_vars

\* C7 witness: get_df_from_table has ended in IOError in a version directory
\* that download_files had made
C7_Witness ==
    /\ lastCall.op = "get_df_from_table" /\ lastCall.outcome = "IOError"
    /\ self._download_path \in dirs
    /\ PicklePath(self, lastCall.arg) \notin DOMAIN files

\* C8: a raw file is parsed at most once; once a file has been parsed, and
\* whenever get_df_from_table has returned, its cached table exists and the
\* table returned is the cached one; and a get_df_from_table call made with
\* the cached table present returns it, reads no raw file and leaves the
\* filesystem as it is.
C8_ParsedOnce ==
    /\ [](\A f \in Range(files_to_download) :
            /\ parses[f] <= 1
            /\ parses[f] = 1 => PicklePath(self, f) \in DOMAIN files
            /\ (GetDfStep(lastCall, f) /\ lastCall.outcome = "ok")
                  => /\ PicklePath(self, f) \in DOMAIN files
                     /\ lastCall.df = files[PicklePath(self, f)])
    /\ [][\A f \in Range(files_to_download) :
            (GetDfStep(lastCall', f) /\ PicklePath(self, f) \in DOMAIN files)
               => /\ lastCall'.outcome = "ok"
                  /\ lastCall'.df = files[PicklePath(self, f)]
                  /\ lastCall'.reads = <<>>
                  /\ files' = files /\ parses' = parses
         ]_vars

\* C8 witness: get_df_from_table has returned the cached expressions table
\* without reading the raw file, which by now holds another table
C8_Witness ==
    /\ GetDfStep(lastCall, expressions_file) /\ lastCall.outcome = "ok"
    /\ lastCall.reads = <<>>
    /\ parses[expressions_file] = 1
    /\ DataPath(self, expressions_file) \in DOMAIN files
    /\ ReadTable(files[DataPath(self, expressions_file)]) # lastCall.df

\* the version a valid version argument stands for
MeantVersion ==
    IF arg_version = NoVersion THEN SetMax(DOMAIN version_to_url) ELSE arg_version
ValidVersion == arg_version = NoVersion \/ arg_version \in DOMAIN version_to_url

\* C10: with a valid version argument download_files never ends in KeyError,
\* fetches the manifest from the listing's url of the version meant, which is
\* the article's versions url followed by that version, and every directory
\* and file it leaves on disk lies at or under <directory>/v<version>, the
\* data files holding what that version's download urls serve.
C10_VersionResolution ==
    (ValidVersion /\ DownloadedIn(lastCall)) =>
        /\ lastCall.url = version_to_url[MeantVersion]
        /\ lastCall.url = Append(ArticleUrl, MeantVersion)
        /\ lastCall.outcome # "ConnectionError" =>
              /\ dirs = {directory, Join(directory, VersionDir(MeantVersion))}
              /\ \A p \in DOMAIN files :
                    SubSeq(p, 1, 2) = Join(directory, VersionDir(MeantVersion))
              /\ \A i \in 1..Len(lastCall.downloads) :
                    files[lastCall.downloads[i]] =
                        RemoteContent(DownloadUrl(version_to_url[MeantVersion],
                                                  lastCall.downloads[i][3]))

\* C10 witness: constructed with version None against a listing of several
\* versions, download_files has returned having downloaded a file
C10_Witness ==
    /\ arg_version = NoVersion
    /\ Cardinality(DOMAIN version_to_url) > 1
    /\ lastCall.op = "download_files" /\ lastCall.outcome = "ok"
    /\ lastCall.downloads # <<>>

----------------------------------------------------------------------------
(* Claims about downloads cut short, checked under SpecCrash *)

\* what the archive serves for a data file at the object's version
CompleteFile(f) == RemoteContent(DownloadUrl(ManifestUrl(self, version_to_url), f))

\* the data file is on disk in fs_files and holds a part of what the archive
\* serves for it
IsPartial(fs_files, f) ==
    /\ ManifestUrl(self, version_to_url) # <<>>
    /\ DataPath(self, f) \in DOMAIN fs_files
    /\ fs_files[DataPath(self, f)] \in PartialFiles(CompleteFile(f))

\* the call that ended in this step looked for the table of f
ReadsTableOf(call, f) ==
    \/ GetDfStep(call, f)
    \/ call.op = "run" /\ Fetched(call) /\ f = expressions_file

\* C11: downloads are not atomic.  A download_files call that is cut short
\* while a data file is in transfer leaves that file, absent before, on disk
\* holding a part of its content.  While a data file is partial, every step
\* that is not an outside party's keeps it as it is, no download_files call
\* (run's included) downloads it, and a get_df_from_table call (run's
\* included) that finds no cached table hands the partial file to the parser:
\* it caches and returns the table of the partial file, which is not the
\* table of the complete one, or ends in the parser's error.
C11_PartialFileStays ==
    [][/\ (lastCall'.op = "download_files" /\ lastCall'.outcome = "Interrupted")
            => /\ lastCall'.arg \in Range(files_to_download)
               /\ DataPath(self, lastCall'.arg) \notin DOMAIN files
               /\ IsPartial(files', lastCall'.arg)
       /\ \A f \in Range(files_to_download) : IsPartial(files, f) =>
            LET path == DataPath(self, f)
                pickle_path == PicklePath(self, f)
            IN  /\ lastCall'.op # "outside"
                      => path \in DOMAIN files' /\ files'[path] = files[path]
                /\ DownloadedIn(lastCall')
                      => \A i \in 1..Len(lastCall'.downloads) :
                            lastCall'.downloads[i] # path
                /\ (ReadsTableOf(lastCall', f) /\ pickle_path \notin DOMAIN files)
                      => /\ lastCall'.reads = <<path>>
                         /\ Parseable(files[path])
                               => /\ pickle_path \in DOMAIN files'
                                  /\ files'[pickle_path] = ReadTable(files[path])
                                  /\ files'[pickle_path] # ReadTable(CompleteFile(f))
                                  /\ GetDfStep(lastCall', f)
                                        => /\ lastCall'.outcome = "ok"
                                           /\ lastCall'.df = ReadTable(files[path])
                         /\ ~Parseable(files[path])
                               => /\ lastCall'.outcome = "ParseError"
                                  /\ pickle_path \notin DOMAIN files'
      ]_vars

\* C11 witness: with a partial expressions file on disk, run has ended, its
\* download_files having passed the file over though the manifest names it,
\* its get_df_from_table having parsed the partial file and cached its table
C11_Witness ==
    /\ lastCall.op = "run"
    /\ expressions_file \in Range(manifest)
    /\ IsPartial(files, expressions_file)
    /\ \A i \in 1..Len(lastCall.downloads) :
          lastCall.downloads[i] # DataPath(self, expressions_file)
    /\ lastCall.reads = <<DataPath(self, expressions_file)>>
    /\ PicklePath(self, expressions_file) \in DOMAIN files
    /\ files[PicklePath(self, expressions_file)]
          = ReadTable(files[DataPath(self, expressions_file)])

----------------------------------------------------------------------------
(* filter_data_by_mutation on bounded tables: SpecFilter *)

SampleIds == {"s1", "s2", "s3"}

\* the index columns a table may have: up to MaxRows distinct sample ids
Indexes ==
    {ix \in UNION {[1..n -> SampleIds] : n \in 0..MaxRows} :
        \A i, j \in 1..Len(ix) : ix[i] = ix[j] => i = j}

\* an expression table: one value column, the row's position in it
ExpressionTables ==
    {[index |-> ix, values |-> [i \in 1..Len(ix) |-> <<i>>]] : ix \in Indexes}
\* a label series: every sample of it labelled 1
LabelSeries ==
    {[index |-> ix, values |-> [i \in 1..Len(ix) |-> 1]] : ix \in Indexes}

\* the CognomlData object of the other specifications, left alone here
DataIdle ==
    /\ version_to_url = Listing({1})
    /\ arg_version = NoVersion
    /\ self = NewCognomlData(version_to_url, arg_version)
    /\ manifest = <<>>
    /\ dirs = {}
    /\ files = <<>>
    /\ parses = [f \in Range(files_to_download) |-> 0]
    /\ lastCall = NoCall

InitFilter ==
    /\ DataIdle
    /\ ClassifierIdle
    /\ expr_df \in ExpressionTables
    /\ mut_df \in LabelSeries
    /\ filtered = [outcome |-> "none", df |-> NoTable]

\* filter_data_by_mutation(expr_df, mut_df)
FilterDataByMutation ==
    /\ filtered' \in FilterOutcomes(expr_df, mut_df)
    /\ UNCHANGED <<dataVars, classifierVars, expr_df, mut_df>>

NextFilter == FilterDataByMutation

SpecFilter == InitFilter /\ [][NextFilter]_vars

\* C3 as stated: filter_data_by_mutation returns normally and the index of
\* its result is the set of ids that are in both the expression table's and
\* the label series' index, each once.
C3_FilterIsIntersection ==
    filtered.outcome # "none" =>
        /\ filtered.outcome = "ok"
        /\ Range(filtered.df.index) = Range(expr_df.index) \cap Range(mut_df.index)
        /\ NoDuplicates(filtered.df.index)

----------------------------------------------------------------------------
(* cognoml/analysis.py: the estimators *)

\* the module-level grid_search (analysis.py:7), CognomlClassifier's default
\* pipeline, and two estimators a caller may pass instead: one that has no
\* fit method, one that has no predict method
Estimators == {"grid_search", "no_fit", "no_predict"}
HasFit(e) == e # "no_fit"
HasPredict(e) == e # "no_predict"
\* best_score_, cv_results_ and best_estimator_ are a grid search's attributes
HasSearchResults(e) == e = "grid_search"

Unfitted == [fitted |-> FALSE, positives |-> 0, n |-> 0]

Count(s, v) == Cardinality({i \in 1..Len(s) : s[i] = v})

\* what pipeline.fit(X=x_train, y=y_train) raises, "ok" when it returns: an
\* estimator without fit raises AttributeError, the logistic regression
\* refuses labels of a single class
FitRaises(e, y_train) ==
    IF ~HasFit(e) THEN "AttributeError"
    ELSE IF Cardinality(Range(y_train)) < 2 THEN "ValueError"
    ELSE "ok"

\* the estimator after a fit that returned: what it learnt of its labels
Fitted(y_train) ==
    [fitted |-> TRUE, positives |-> Count(y_train, 1), n |-> Len(y_train)]

\* pipeline.predict(x): the class most of the training labels had, for every
\* row of x
PredictOne(est) == IF 2 * est.positives >= est.n THEN 1 ELSE 0

\* what pipeline.predict(x) raises, "ok" when it returns
PredictRaises(e, est) ==
    IF ~HasPredict(e) THEN "AttributeError"
    ELSE IF ~est.fitted THEN "NotFittedError"
    ELSE "ok"

\* fit returning although pipeline.fit raised
FitSwallowed(raised) == "ok"

\* CognomlClassifier.fit (analysis.py:49-53): what the caller of fit sees when
\* pipeline.fit ended in `raised`
FitEnds(raised) == raised

----------------------------------------------------------------------------
(* train_test_split(x, y, test_size, random_state=0, stratify=y) *)

\* test_size=0.1, in tenths
TestSizeTenths == 1
\* the samples of a data set
NSamples == 11

Classes(labels) == Range(labels)
\* ceil(test_size * n_samples)
NTest(n) == (n * TestSizeTenths + 9) \div 10
NTrain(n) == n - NTest(n)

\* what the split raises, "ok" when it splits
SplitRaises(x_index, labels) ==
    LET n == Len(labels)
    IN  IF Len(x_index) # n \/ n = 0 THEN "ValueError"
        ELSE IF \E c \in Classes(labels) : Count(labels, c) < 2 THEN "ValueError"
        ELSE IF NTrain(n) < Cardinality(Classes(labels)) THEN "ValueError"
        ELSE IF NTest(n) < Cardinality(Classes(labels)) THEN "ValueError"
        ELSE "ok"

\* the numbers of training samples per class: each class's share of n_train
\* rounded down, the samples left over going to the classes of largest
\* remainder, a tie broken either way
TrainAllocations(labels) ==
    LET n == Len(labels)
        cs == Classes(labels)
        low(c) == (Count(labels, c) * NTrain(n)) \div n
        rem(c) == (Count(labels, c) * NTrain(n)) % n
        Sum(a) == LET RECURSIVE S(_)
                      S(D) == IF D = {} THEN 0
                              ELSE LET c == CHOOSE c \in D : TRUE
                                   IN  a[c] + S(D \ {c})
                  IN  S(cs)
    IN  {a \in [cs -> 0..n] :
            /\ \A c \in cs : a[c] \in {low(c), low(c) + 1}
            /\ Sum(a) = NTrain(n)
            /\ \A c, d \in cs :
                  (a[c] = low(c) + 1 /\ a[d] = low(d)) => rem(c) >= rem(d)}

\* the sets of positions the test partition may be: of each class, the
\* samples the training allocation leaves
TestPositions(labels) ==
    LET n == Len(labels)
        cs == Classes(labels)
        of == [c \in cs |-> {i \in 1..n : labels[i] = c}]
        allocations == TrainAllocations(labels)
        \* the test members of each class, for one training allocation
        TestOf(a) == [c \in cs |-> {S \in SUBSET of[c] :
                                       Cardinality(S) = Cardinality(of[c]) - a[c]}]
        RECURSIVE Choices(_, _)
        Choices(a, D) ==
            IF D = {} THEN {{}}
            ELSE LET c == CHOOSE c \in D : TRUE
                 IN  {S \cup R : S \in TestOf(a)[c], R \in Choices(a, D \ {c})}
    IN  UNION {Choices(a, cs) : a \in allocations}

\* the rows of a sequence at the positions P, in order
SelectSeq2(s, P) ==
    LET RECURSIVE Sel(_)
        Sel(i) == IF i > Len(s) THEN <<>>
                  ELSE (IF i \in P THEN <<s[i]>> ELSE <<>>) \o Sel(i + 1)
    IN  Sel(1)

----------------------------------------------------------------------------
(* CognomlClassifier (analysis.py:9-110) and classify (analysis.py:113-207) *)

Instances == {"A", "B"}

\* a table cell holds one value, <<v>>, or is NaN, <<>>
NaN == <<>>

\* series.isin(values).astype(int)
IsIn(v, values) == IF v \in Range(values) THEN 1 ELSE 0

\* pd.DataFrame({'sample_id': obs_df.index, 'status': obs_df.values}) with the
\* testing column of analysis.py:74 (classify: analysis.py:137-148)
ObsFrame(y, x_test_index) ==
    [i \in 1..Len(y.index) |->
        [sample_id |-> y.index[i], status |-> <<y.values[i]>>,
         testing |-> <<IsIn(y.index[i], x_test_index)>>]]

\* predict(): one row for every row of x (analysis.py:55-63, 152-155)
PredictFrame(x_index, est) ==
    [i \in 1..Len(x_index) |->
        [sample_id |-> x_index[i], predicted_status |-> <<PredictOne(est)>>]]

\* obs_df.merge(predict_df, how='right', sort=True), on sample_id: every row
\* of predict_df, with each row of obs_df of its sample_id or, when there is
\* none, with NaN for obs_df's columns; ordered by sample_id
MergeRight(obs, pred) ==
    LET RowsFor(p) ==
            LET hits == SelectSeq(obs, LAMBDA o : o.sample_id = p.sample_id)
            IN  IF hits = <<>>
                THEN << [sample_id |-> p.sample_id, status |-> NaN, testing |-> NaN,
                         predicted_status |-> p.predicted_status] >>
                ELSE [j \in 1..Len(hits) |->
                        [sample_id |-> p.sample_id, status |-> hits[j].status,
                         testing |-> hits[j].testing,
                         predicted_status |-> p.predicted_status]]
        RECURSIVE All(_)
        All(i) == IF i > Len(pred) THEN <<>> ELSE RowsFor(pred[i]) \o All(i + 1)
    IN  SortSeq(All(1), LAMBDA a, b : a.sample_id < b.sample_id)

\* the selected column: obs_df['sample_id'].isin(values).astype(int)
WithSelected(rows, values) ==
    [i \in 1..Len(rows) |->
        [sample_id |-> rows[i].sample_id, status |-> rows[i].status,
         testing |-> rows[i].testing,
         predicted_status |-> rows[i].predicted_status,
         selected |-> <<IsIn(rows[i].sample_id, values)>>]]

\* the fill left out
FillNaNot(cell) == cell

\* column.fillna(-1).astype(int), on one cell
FillNa(cell) == IF cell = NaN THEN <<-1>> ELSE cell

\* analysis.py:77-78, 164-165
Filled(rows) ==
    [i \in 1..Len(rows) |->
        [rows[i] EXCEPT !.status = FillNa(@), !.testing = FillNa(@),
                        !.selected = FillNa(@)]]

CountRows(rows, Test(_)) == Cardinality({i \in 1..Len(rows) : Test(rows[i])})

\* the positives counted among the predictions
PositivesPredicted(rows) == CountRows(rows, LAMBDA r : r.predicted_status = <<1>>)

\* sum(obs_df.status == 1)
Positives(rows) == CountRows(rows, LAMBDA r : r.status = <<1>>)

\* analysis.py:81-89, 172-180
Dimensions(rows) ==
    [observations_selected |-> CountRows(rows, LAMBDA r : r.selected = <<1>>),
     observations_unselected |-> CountRows(rows, LAMBDA r : r.selected = <<0>>),
     positives |-> Positives(rows),
     negatives |-> CountRows(rows, LAMBDA r : r.status = <<0>>),
     training_observations |-> CountRows(rows, LAMBDA r : r.testing = <<0>>),
     testing_observations |-> CountRows(rows, LAMBDA r : r.testing = <<1>>)]

NoResults ==
    [made |-> FALSE, dimensions |-> Dimensions(<<>>), cv |-> Unfitted,
     observations |-> <<>>]

\* the report: dimensions, performance.cv (the search's best_score_, here
\* what the estimator learnt) and the observations table
Results(rows, est) ==
    [made |-> TRUE, dimensions |-> Dimensions(rows), cv |-> est,
     observations |-> rows]

\* the observations table of get_results (analysis.py:72-78): selected is
\* whether the row's sample_id is among the table's own sample_ids
GetResultsObservations(me, est) ==
    LET merged == MergeRight(ObsFrame(me.obs_df, me.x_test),
                             PredictFrame(me.X, est))
    IN  Filled(WithSelected(merged, [i \in 1..Len(merged) |-> merged[i].sample_id]))

\* get_results(): what it raises ("ok" when it returns) and its report.
\* predict's exception passes through (analysis.py:73); a pipeline that is no
\* grid search has no best_score_ (analysis.py:98)
get_results(me, ests) ==
    LET est == ests[me.pipeline]
        raised == PredictRaises(me.pipeline, est)
    IN  IF raised # "ok" THEN [outcome |-> raised, results |-> NoResults]
        ELSE IF ~HasSearchResults(me.pipeline)
        THEN [outcome |-> "AttributeError", results |-> NoResults]
        ELSE [outcome |-> "ok",
              results |-> Results(GetResultsObservations(me, est), est)]

\* the observations table of classify (analysis.py:152-165): selected is
\* whether the row's sample_id is among the sample_id argument
ClassifyObservations(sample_id, mutation_status, x_whole, x_test, est) ==
    LET obs == ObsFrame([index |-> sample_id, values |-> mutation_status], x_test)
    IN  Filled(WithSelected(MergeRight(obs, PredictFrame(x_whole, est)), sample_id))

NoInstance ==
    [built |-> FALSE, X |-> <<>>, obs_df |-> NoTable, pipeline |-> "grid_search",
     x_train |-> <<>>, x_test |-> <<>>, y_train |-> <<>>, fit_done |-> FALSE,
     op |-> "none", outcome |-> "none", results |-> NoResults]

\* CognomlClassifier(X, y, pipeline) with the split's test positions T
NewClassifier(X, y, pipeline, T) ==
    LET n == Len(y.index)
    IN  [NoInstance EXCEPT
            !.built = TRUE, !.X = X, !.obs_df = y, !.pipeline = pipeline,
            !.x_train = SelectSeq2(X, (1..n) \ T), !.x_test = SelectSeq2(X, T),
            !.y_train = SelectSeq2(y.values, (1..n) \ T),
            !.op = "__init__", !.outcome = "ok"]

----------------------------------------------------------------------------
(* The data sets *)

\* n labels, the first k of them 1
LabelsOf(k, n) == [i \in 1..n |-> IF i <= k THEN 1 ELSE 0]

\* a feature table over the sample ids 1..NSamples and a label series over
\* the same ids or, when astray, with the id 0 in place of the last
DataSet(k, astray) ==
    [X |-> [i \in 1..NSamples |-> i],
     y |-> [index |-> [i \in 1..NSamples |-> IF astray /\ i = NSamples THEN 0 ELSE i],
            values |-> LabelsOf(k, NSamples)]]

\* the numbers of positives of the data sets
PositiveCounts == {0, 1, 3, NSamples - 3}
DataSets == {DataSet(k, astray) : k \in PositiveCounts, astray \in BOOLEAN}
TwoClassDataSets == {DataSet(k, FALSE) : k \in {3, NSamples - 3}}

\* read_data(version): the whole expression table, which holds one sample
\* (id NSamples + 1, its first row) that classify is not given
WholeTable == <<NSamples + 1>> \o [i \in 1..NSamples |-> i]

----------------------------------------------------------------------------
(* The state machine of the classifiers: SpecClassifier, SpecShared *)

InitClassifier ==
    /\ DataIdle
    /\ FilterIdle
    /\ mut_df = NoTable
    /\ estimators = [e \in Estimators |-> Unfitted]
    /\ inst = [i \in Instances |-> NoInstance]
    /\ classified = [outcome |-> "none", sample_id |-> <<>>, results |-> NoResults]

\* CognomlClassifier(X, y, pipeline): the split raises, and no object is made
ConstructFails(i, ds, pipeline) ==
    /\ ~inst[i].built
    /\ SplitRaises(ds.X, ds.y.values) # "ok"
    /\ inst' = [inst EXCEPT ![i] = [NoInstance EXCEPT
                   !.op = "__init__", !.outcome = SplitRaises(ds.X, ds.y.values)]]
    /\ UNCHANGED <<dataVars, filterVars, estimators, classified>>

\* CognomlClassifier(X, y, pipeline)
Construct(i, ds, pipeline) ==
    /\ ~inst[i].built
    /\ SplitRaises(ds.X, ds.y.values) = "ok"
    /\ \E T \in TestPositions(ds.y.values) :
          inst' = [inst EXCEPT ![i] = NewClassifier(ds.X, ds.y, pipeline, T)]
    /\ UNCHANGED <<dataVars, filterVars, estimators, classified>>

\* fit()
Fit(i) ==
    /\ inst[i].built
    /\ LET me == inst[i]
           raised == FitRaises(me.pipeline, me.y_train)
       IN  /\ estimators' = IF raised = "ok"
                            THEN [estimators EXCEPT ![me.pipeline] = Fitted(me.y_train)]
                            ELSE estimators
           /\ inst' = [inst EXCEPT ![i].op = "fit", ![i].outcome = FitEnds(raised),
                                   ![i].fit_done = @ \/ raised = "ok"]
    /\ UNCHANGED <<dataVars, filterVars, classified>>

\* get_results()
GetResults(i) ==
    /\ inst[i].built
    /\ LET r == get_results(inst[i], estimators)
       IN  inst' = [inst EXCEPT ![i].op = "get_results", ![i].outcome = r.outcome,
                                ![i].results = r.results]
    /\ UNCHANGED <<dataVars, filterVars, estimators, classified>>

\* classify(sample_id, mutation_status, data_version) for the samples
\* 1..NSamples, the first k of them positive
Classify(k) ==
    LET sample_id == [i \in 1..NSamples |-> i]
        mutation_status == LabelsOf(k, NSamples)
        call == [outcome |-> "ok", sample_id |-> sample_id, results |-> NoResults]
    IN  IF SplitRaises(sample_id, mutation_status) # "ok"
        THEN /\ classified' = [call EXCEPT
                                 !.outcome = SplitRaises(sample_id, mutation_status)]
             /\ UNCHANGED <<dataVars, filterVars, estimators, inst>>
        ELSE \E T \in TestPositions(mutation_status) :
                LET y_train == SelectSeq2(mutation_status, (1..NSamples) \ T)
                    raised == FitRaises("grid_search", y_train)
                IN  IF raised # "ok"
                    THEN /\ classified' = [call EXCEPT !.outcome = raised]
                         /\ UNCHANGED <<dataVars, filterVars, estimators, inst>>
                    ELSE /\ estimators' =
                               [estimators EXCEPT !["grid_search"] = Fitted(y_train)]
                         /\ classified' = [call EXCEPT !.results =
                               Results(ClassifyObservations(sample_id, mutation_status,
                                          WholeTable, SelectSeq2(sample_id, T),
                                          Fitted(y_train)),
                                       Fitted(y_train))]
                         /\ UNCHANGED <<dataVars, filterVars, inst>>

\* a run has gone through classify()
Classified == classified.outcome # "none"
\* a run has gone through the CognomlClassifier class
Constructed == \E i \in Instances : inst[i].op # "none"

\* a run of one classifier, on any data set with any estimator, or a run of
\* classify calls
NextClassifier ==
    \/ \E ds \in DataSets, e \in Estimators :
          ~Classified /\ ConstructFails("A", ds, e)
    \/ \E ds \in DataSets, e \in Estimators :
          ~Classified /\ Construct("A", ds, e)
    \/ Fit("A")
    \/ GetResults("A")
    \/ \E k \in PositiveCounts : ~Constructed /\ Classify(k)

SpecClassifier == InitClassifier /\ [][NextClassifier]_vars

\* two classifiers built with the default pipeline on data of two classes
NextShared ==
    \/ \E i \in Instances, ds \in TwoClassDataSets : Construct(i, ds, "grid_search")
    \/ \E i \in Instances : Fit(i)
    \/ \E i \in Instances : GetResults(i)

SpecShared == InitClassifier /\ [][NextShared]_vars

----------------------------------------------------------------------------
(* Claims about the classifier, checked under SpecClassifier and SpecShared *)

\* get_results' predict cannot succeed: the estimator has no predict or has
\* not been fitted
PredictFails(i) ==
    \/ ~HasPredict(inst[i].pipeline)
    \/ ~estimators[inst[i].pipeline].fitted

\* C4 as stated: fit never raises, whatever the estimator lacks and however
\* its fit fails, while a failing predict makes get_results raise.
C4_FitSwallowsFailure ==
    \A i \in Instances :
        /\ inst[i].op = "fit" => inst[i].outcome = "ok"
        /\ (inst[i].op = "get_results" /\ PredictFails(i)) => inst[i].outcome # "ok"

\* C4 amended: fit on an estimator without fit raises AttributeError to its
\* caller, fit on an estimator whose fit fails raises that failure, and in
\* both cases the estimator is left as it was (never fitted by this
\* instance); a failing predict makes get_results raise and build no report.
C4_FitFailureRaises ==
    \A i \in Instances :
        /\ (inst[i].op = "fit" /\ ~HasFit(inst[i].pipeline))
              => /\ inst[i].outcome = "AttributeError"
                 /\ ~inst[i].fit_done
                 /\ estimators[inst[i].pipeline] = Unfitted
        /\ (inst[i].op = "fit" /\ HasFit(inst[i].pipeline)
               /\ Cardinality(Range(inst[i].y_train)) < 2)
              => inst[i].outcome = "ValueError" /\ ~inst[i].fit_done
        /\ (inst[i].op = "fit" /\ inst[i].outcome = "ok")
              => /\ inst[i].fit_done
                 /\ estimators[inst[i].pipeline] = Fitted(inst[i].y_train)
        /\ (inst[i].op = "get_results" /\ PredictFails(i))
              => /\ inst[i].outcome \in {"AttributeError", "NotFittedError"}
                 /\ ~inst[i].results.made

\* C4 witness: fit has been called on a classifier whose estimator has no
\* fit method
C4_Witness ==
    /\ inst["A"].op = "fit"
    /\ inst["A"].pipeline = "no_fit"
    /\ inst["A"].outcome # "ok"

\* the reports built: by an instance's get_results, labelled by obs_df's
\* index, or by classify, labelled by its sample_id argument
Reports ==
    {[by |-> "get_results", rows |-> inst[i].results.observations,
      labelled |-> Range(inst[i].obs_df.index)] :
        i \in {j \in Instances : inst[j].results.made}}
    \cup (IF classified.results.made
          THEN {[by |-> "classify", rows |-> classified.results.observations,
                 labelled |-> Range(classified.sample_id)]}
          ELSE {})

Unlabelled(report) ==
    {k \in 1..Len(report.rows) : report.rows[k].sample_id \notin report.labelled}

ReportOf(i, ests) == get_results(inst[i], ests)

\* C6 as stated: once A has been fitted, a step that is not A's own leaves
\* what A.get_results returns unchanged.
C6_NoSharedState ==
    [][(inst["A"].fit_done /\ inst'["A"] = inst["A"])
          => ReportOf("A", estimators') = ReportOf("A", estimators)]_vars

\* C9: after fit and get_results on a feature table and a label series over
\* the same unique sample ids, the train and test partitions are disjoint and
\* together hold every sample, the report's training and testing
\* observations are the sizes of the two partitions and add up to n, its
\* positives are the samples labelled 1, and positives and negatives add up
\* to n.
C9_DimensionsAccountForAll ==
    \A i \in Instances :
        (/\ inst[i].results.made
         /\ Range(inst[i].X) = Range(inst[i].obs_df.index))
        => LET me == inst[i]
               n == Len(me.X)
               d == me.results.dimensions
           IN  /\ Range(me.x_train) \cap Range(me.x_test) = {}
               /\ Range(me.x_train) \cup Range(me.x_test) = Range(me.X)
               /\ Len(me.x_train) + Len(me.x_test) = n
               /\ d.training_observations = Len(me.x_train)
               /\ d.testing_observations = Len(me.x_test)
               /\ d.training_observations + d.testing_observations = n
               /\ d.positives = Count(me.obs_df.values, 1)
               /\ d.positives + d.negatives = n

\* C9 witness: get_results has built the report of a fitted classifier whose
\* data hold samples of both labels under the same ids
C9_Witness ==
    /\ inst["A"].fit_done
    /\ inst["A"].results.made
    /\ Range(inst["A"].X) = Range(inst["A"].obs_df.index)
    /\ inst["A"].results.dimensions.positives > 0
    /\ inst["A"].results.dimensions.negatives > 0
    /\ inst["A"].results.dimensions.testing_observations > 0

====
